---- MODULE Spec2Model ----
(***************************************************************************)
(* ExcelScanner (excel_scanner/scanner.py, excel_scanner/core.py): a       *)
(* keyword-anchored cell addressing engine over one spreadsheet file, with *)
(* a bulk table (pandas DataFrame, self.df) and a cell accessor (openpyxl  *)
(* workbook/worksheet, self.wb / self.ws), both cached on the instance.    *)
(*                                                                         *)
(* Python values are tagged records: None, NaN (pandas' empty cell),       *)
(* PyInt(n), PyStr(s).  A string is a sequence of one-character strings.       *)
(***************************************************************************)
EXTENDS Integers, Sequences, FiniteSets, TLC

VARIABLES file, df, wb, ws, nwb, open, req, call

vars == <<file, df, wb, ws, nwb, open, req, call>>

(***************************************************************************)
(* Bounds of the model.                                                    *)
(***************************************************************************)
\* the sheet of the file has NRows rows and NCols columns
NRows == 2

NCols == 2

\* load_workbook is called at most MaxLoads times in one behaviour
MaxLoads == 2

(***************************************************************************)
(* Python values.                                                          *)
(***************************************************************************)
None == [tag |-> "None"]

\* numpy.nan, the bulk table's empty cell
NaN == [tag |-> "float", nan |-> TRUE, n |-> 0]

PyFloat(n) == [tag |-> "float", nan |-> FALSE, n |-> n]

PyInt(n) == [tag |-> "int", n |-> n]

PyStr(s) == [tag |-> "str", s |-> s]

IsNone(v) == v.tag = "None"

Min(a, b) == IF a <= b THEN a ELSE b

Max(a, b) == IF a >= b THEN a ELSE b

\* pd.isna(value): true of NaN and of None
isna(v) == v.tag = "None" \/ (v.tag = "float" /\ v.nan)

(***************************************************************************)
(* Strings: str.lower(), str.strip(), str(x), `in`.                        *)
(***************************************************************************)
Whitespace == {" "}

lower_char(c) ==
  CASE c = "A" -> "a"
    [] c = "B" -> "b"
    [] c = "N" -> "n"
    [] OTHER -> c

lower(s) == [i \in 1..Len(s) |-> lower_char(s[i])]

RECURSIVE lstrip(_)
lstrip(s) ==
  IF s # <<>> /\ Head(s) \in Whitespace THEN lstrip(Tail(s)) ELSE s

RECURSIVE rstrip(_)
rstrip(s) ==
  IF s # <<>> /\ s[Len(s)] \in Whitespace
    THEN rstrip(SubSeq(s, 1, Len(s) - 1))
    ELSE s

\* a strip that removes at most one character from each end
strip_one(s) ==
  LET t == IF s # <<>> /\ Head(s) \in Whitespace THEN Tail(s) ELSE s
  IN IF t # <<>> /\ t[Len(t)] \in Whitespace THEN SubSeq(t, 1, Len(t) - 1) ELSE t

strip(s) == rstrip(lstrip(s))

Digit(d) ==
  CASE d = 0 -> "0" [] d = 1 -> "1" [] d = 2 -> "2" [] d = 3 -> "3"
    [] d = 4 -> "4" [] d = 5 -> "5" [] d = 6 -> "6" [] d = 7 -> "7"
    [] d = 8 -> "8" [] d = 9 -> "9"

RECURSIVE Digits(_)
Digits(n) == IF n < 10 THEN <<Digit(n)>> ELSE Digits(n \div 10) \o <<Digit(n % 10)>>

\* str(x) of a cell value or of a keyword
str(v) ==
  CASE v.tag = "str" -> v
    [] v.tag = "int" -> PyStr(Digits(v.n))
    [] v.tag = "float" ->
         IF v.nan THEN PyStr(<<"n", "a", "n">>) ELSE PyStr(Digits(v.n) \o <<".", "0">>)
    [] v.tag = "None" -> PyStr(<<"N", "o", "n", "e">>)

\* `k in s` for two Python strings
contains(s, k) ==
  \E i \in 1..(Len(s.s) - Len(k.s) + 1) : SubSeq(s.s, i, i + Len(k.s) - 1) = k.s

\* core.normalize_text
normalize_text(value) ==
  IF value.tag = "str" THEN PyStr(lower(strip(value.s))) ELSE value

(***************************************************************************)
(* The file and its two representations.  A sheet is a sequence of rows of *)
(* stored cells: None (empty), PyInt(n), PyStr(s), or a formula with its    *)
(* text and the value the spreadsheet program cached for it.               *)
(***************************************************************************)
Formula(text, cached) == [tag |-> "formula", text |-> text, cached |-> cached]

\* what a reader of values (pandas; openpyxl with data_only=True) sees in a
\* stored cell
stored_value(cell) == IF cell.tag = "formula" THEN cell.cached ELSE cell

shape0(t) == Len(t)

shape1(t) == IF Len(t) = 0 THEN 0 ELSE Len(t[1])

\* pandas gives a column that holds numbers and empty cells only the dtype
\* float64; a column with text in it keeps its objects
ColumnIsFloat(sheet, c) ==
  /\ \A r \in 1..Len(sheet) : stored_value(sheet[r][c]).tag \in {"None", "int"}
  /\ \E r \in 1..Len(sheet) : stored_value(sheet[r][c]).tag = "None"

\* pd.read_excel(self.filepath, header=None)
read_excel(sheet) ==
  [r \in 1..Len(sheet) |->
    [c \in 1..Len(sheet[r]) |->
      LET value == stored_value(sheet[r][c])
      IN CASE value.tag = "None" -> NaN
           [] value.tag = "int" ->
                IF ColumnIsFloat(sheet, c) THEN PyFloat(value.n) ELSE value
           [] OTHER -> value]]

(***************************************************************************)
(* get_keyword_cell                                                        *)
(***************************************************************************)
\* the number of leading elements slice(None, stop) selects out of n
slice_stop(n, stop) ==
  IF IsNone(stop) THEN n
  ELSE IF stop.n >= 0 THEN Min(stop.n, n)
  ELSE Max(n + stop.n, 0)

\* row_slice: slice(None, end_row) if end_row is None else slice(None, end_row - 1)
row_slice(table, end_row) ==
  slice_stop(shape0(table), IF IsNone(end_row) THEN None ELSE PyInt(end_row.n - 1))

col_slice(table, end_col) ==
  slice_stop(shape1(table), IF IsNone(end_col) THEN None ELSE PyInt(end_col.n - 1))

\* self.df.iloc[row_slice, col_slice]
search_area(table, end_row, end_col) ==
  [r \in 1..row_slice(table, end_row) |->
    [c \in 1..col_slice(table, end_col) |-> table[r][c]]]

\* the lambda mapped over the search area
cell_matches(x, norm_keyword, exact_match) ==
  IF exact_match
    THEN normalize_text(str(x)) = norm_keyword
    ELSE contains(normalize_text(str(x)), norm_keyword)

\* the 0-based positions of a rows x cols array in row-major order
RowMajor(rows, cols) ==
  [k \in 1..(rows * cols) |-> <<(k - 1) \div cols, (k - 1) % cols>>]

\* the positions left 0-based
positions_of_zero_based(table, keyword, exact_match, end_row, end_col) ==
  LET area == search_area(table, end_row, end_col)
      norm_keyword == normalize_text(str(keyword))
      hit(p) == cell_matches(area[p[1] + 1][p[2] + 1], norm_keyword, exact_match)
  IN SelectSeq(RowMajor(row_slice(table, end_row), col_slice(table, end_col)), hit)

\* matches.to_numpy().nonzero(), zipped, 1 added to each index
positions_of(table, keyword, exact_match, end_row, end_col) ==
  LET area == search_area(table, end_row, end_col)
      norm_keyword == normalize_text(str(keyword))
      hit(p) == cell_matches(area[p[1] + 1][p[2] + 1], norm_keyword, exact_match)
      nz == SelectSeq(RowMajor(row_slice(table, end_row), col_slice(table, end_col)), hit)
  IN [i \in 1..Len(nz) |-> <<nz[i][1] + 1, nz[i][2] + 1>>]

\* the body of get_keyword_cell once self.df holds `table`
get_keyword_cell_on(table, keyword, exact_match, end_row, end_col) ==
  positions_of(table, keyword, exact_match, end_row, end_col)

(***************************************************************************)
(* Outcomes of a call.                                                     *)
(***************************************************************************)
Return(v) == [kind |-> "return", value |-> v]

RaiseValueError(why, data) ==
  [kind |-> "raise", exc |-> "ValueError", why |-> why, data |-> data]

RaiseExcelScannerError == [kind |-> "raise", exc |-> "ExcelScannerError"]

Range(f) == {f[x] : x \in DOMAIN f}

RECURSIVE Intersection(_)
\* set.intersection(*sets) of a non-empty collection
Intersection(sets) ==
  LET s == CHOOSE x \in sets : TRUE
  IN IF sets = {s} THEN s ELSE s \cap Intersection(sets \ {s})

(***************************************************************************)
(* find_consensus_row; `order` is the order in which the for loop visits   *)
(* the keyword set.                                                        *)
(***************************************************************************)
RECURSIVE keyword_to_rows_unchecked(_, _, _, _, _, _, _)
\* step 1 without `if not positions: return None`
keyword_to_rows_unchecked(table, order, i, acc, exact_match, end_row, end_col) ==
  IF i > Len(order) THEN [returned |-> FALSE, dict |-> acc]
  ELSE LET positions == get_keyword_cell_on(table, order[i], exact_match, end_row, end_col)
       IN keyword_to_rows_unchecked(table, order, i + 1,
            (order[i] :> {pos[1] : pos \in Range(positions)}) @@ acc,
            exact_match, end_row, end_col)

\* step 1 leaving the loop after the first keyword it visits
keyword_to_rows_first_only(table, order, i, acc, exact_match, end_row, end_col) ==
  IF i > Len(order) THEN [returned |-> FALSE, dict |-> acc]
  ELSE LET positions == get_keyword_cell_on(table, order[i], exact_match, end_row, end_col)
       IN IF positions = <<>> THEN [returned |-> TRUE, dict |-> acc]
          ELSE [returned |-> FALSE,
                dict |-> (order[i] :> {pos[1] : pos \in Range(positions)}) @@ acc]

RECURSIVE keyword_to_rows(_, _, _, _, _, _, _)
\* step 1 from the i-th keyword on: the dict, or `returned` at a keyword
\* without positions
keyword_to_rows(table, order, i, acc, exact_match, end_row, end_col) ==
  IF i > Len(order) THEN [returned |-> FALSE, dict |-> acc]
  ELSE LET positions == get_keyword_cell_on(table, order[i], exact_match, end_row, end_col)
       IN IF positions = <<>> THEN [returned |-> TRUE, dict |-> acc]
          ELSE keyword_to_rows(table, order, i + 1,
                 (order[i] :> {pos[1] : pos \in Range(positions)}) @@ acc,
                 exact_match, end_row, end_col)

find_consensus_row_on(table, order, exact_match, end_row, end_col) ==
  LET keywords == Range(order)
      step1 == keyword_to_rows(table, order, 1, <<>>, exact_match, end_row, end_col)
      dict == step1.dict
      keyword == CHOOSE k \in keywords : TRUE
      common_rows == Intersection(Range(dict))
  IN IF keywords = {} THEN Return(None)
     ELSE IF step1.returned THEN Return(None)
     ELSE IF Cardinality(keywords) = 1 /\ Cardinality(dict[keyword]) > 1
       THEN RaiseValueError("multiple rows",
              [keyword |-> keyword, matched |-> dict[keyword]])
     ELSE IF common_rows = {}
       THEN RaiseValueError("no common row", [all_matches |-> dict])
     ELSE IF Cardinality(common_rows) > 1
       THEN RaiseValueError("multiple shared rows", [common |-> common_rows])
     ELSE Return(PyInt(CHOOSE r \in common_rows : TRUE))

(***************************************************************************)
(* find_consensus_col                                                      *)
(***************************************************************************)
RECURSIVE keyword_to_cols_by_row(_, _, _, _, _, _, _)
\* step 1 collecting pos[0], the row, of each position
keyword_to_cols_by_row(table, order, i, acc, exact_match, end_row, end_col) ==
  IF i > Len(order) THEN [returned |-> FALSE, dict |-> acc]
  ELSE LET positions == get_keyword_cell_on(table, order[i], exact_match, end_row, end_col)
       IN IF positions = <<>> THEN [returned |-> TRUE, dict |-> acc]
          ELSE keyword_to_cols_by_row(table, order, i + 1,
                 (order[i] :> {pos[1] : pos \in Range(positions)}) @@ acc,
                 exact_match, end_row, end_col)

RECURSIVE keyword_to_cols(_, _, _, _, _, _, _)
keyword_to_cols(table, order, i, acc, exact_match, end_row, end_col) ==
  IF i > Len(order) THEN [returned |-> FALSE, dict |-> acc]
  ELSE LET positions == get_keyword_cell_on(table, order[i], exact_match, end_row, end_col)
       IN IF positions = <<>> THEN [returned |-> TRUE, dict |-> acc]
          ELSE keyword_to_cols(table, order, i + 1,
                 (order[i] :> {pos[2] : pos \in Range(positions)}) @@ acc,
                 exact_match, end_row, end_col)

find_consensus_col_on(table, order, exact_match, end_row, end_col) ==
  LET keywords == Range(order)
      step1 == keyword_to_cols(table, order, 1, <<>>, exact_match, end_row, end_col)
      dict == step1.dict
      keyword == CHOOSE k \in keywords : TRUE
      common_cols == Intersection(Range(dict))
  IN IF keywords = {} THEN Return(None)
     ELSE IF step1.returned THEN Return(None)
     ELSE IF Cardinality(keywords) = 1 /\ Cardinality(dict[keyword]) > 1
       THEN RaiseValueError("multiple columns",
              [keyword |-> keyword, matched |-> dict[keyword]])
     ELSE IF common_cols = {}
       THEN RaiseValueError("no common column", [all_matches |-> dict])
     ELSE IF Cardinality(common_cols) > 1
       THEN RaiseValueError("multiple shared columns", [common |-> common_cols])
     ELSE Return(PyInt(CHOOSE c \in common_cols : TRUE))

(***************************************************************************)
(* The scanner instance.                                                   *)
(*   file  the sheet stored in the file at self.filepath                   *)
(*   df    self.df: None or the DataFrame                                  *)
(*   wb    self.wb: None or the Workbook (by the number of its load)       *)
(*   ws    self.ws: None or the Worksheet of a workbook                    *)
(*   nwb   the number of workbooks load_workbook has opened                *)
(*   open  the workbooks opened and not closed                             *)
(*   req   the arguments of the call the caller makes (pure operations)    *)
(*   call  the last call on the instance: its arguments and its outcome    *)
(***************************************************************************)
DataFrame(table) == [tag |-> "DataFrame", cells |-> table]

\* the stored cells a sheet is drawn from
CellPool ==
  {None, PyStr(<<" ", "A">>), PyInt(1)}

\* the keywords a caller passes
KeywordPool ==
  {PyStr(<<"a", " ">>), PyStr(<<"1">>)}

Filled(sheet) ==
  Cardinality({p \in (1..Len(sheet)) \X (1..Len(sheet[1])) : ~IsNone(sheet[p[1]][p[2]])})

\* every sheet of up to four cells; of a larger one, those with at most two
\* cells that are not empty
Sheets ==
  {sheet \in [1..NRows -> [1..NCols -> CellPool]] :
     NRows * NCols <= 4 \/ Filled(sheet) <= 2}

\* the sequences that enumerate a set once each
Orders(S) ==
  {o \in [1..Cardinality(S) -> S] : \A i, j \in 1..Cardinality(S) : o[i] = o[j] => i = j}

OptInts(lo, hi) == {None} \cup {PyInt(n) : n \in lo..hi}

\* self.df after `if self.df is None: self.load_with_pandas()`
df_after_load(readable) ==
  IF IsNone(df) /\ readable THEN DataFrame(read_excel(file)) ELSE df

\* __init__
InitScanner ==
  /\ df = None
  /\ wb = None
  /\ ws = None
  /\ nwb = 0
  /\ open = {}
  /\ call = [op |-> "__init__"]

load_with_pandas(readable) ==
  /\ df' = df_after_load(readable)
  /\ call' = [op |-> "load_with_pandas",
              result |-> IF IsNone(df') THEN RaiseExcelScannerError ELSE Return(df')]
  /\ UNCHANGED <<file, wb, ws, nwb, open, req>>

get_keyword_cell(keyword, exact_match, end_row, end_col, readable) ==
  /\ df' = df_after_load(readable)
  /\ call' = [op |-> "get_keyword_cell", keyword |-> keyword, exact_match |-> exact_match,
              end_row |-> end_row, end_col |-> end_col,
              result |-> IF IsNone(df') THEN RaiseExcelScannerError
                         ELSE Return(get_keyword_cell_on(df'.cells, keyword, exact_match,
                                                         end_row, end_col))]
  /\ UNCHANGED <<file, wb, ws, nwb, open, req>>

\* find_consensus_row loading the table before it looks at the keywords
find_consensus_row_loading_first(order, exact_match, end_row, end_col, readable) ==
  /\ df' = df_after_load(readable)
  /\ call' = [op |-> "find_consensus_row", keywords |-> Range(order),
              exact_match |-> exact_match, end_row |-> end_row, end_col |-> end_col,
              result |-> IF IsNone(df') THEN RaiseExcelScannerError
                         ELSE find_consensus_row_on(df'.cells, order, exact_match,
                                                    end_row, end_col)]
  /\ UNCHANGED <<file, wb, ws, nwb, open, req>>

find_consensus_row(order, exact_match, end_row, end_col, readable) ==
  /\ df' = IF order = <<>> THEN df ELSE df_after_load(readable)
  /\ call' = [op |-> "find_consensus_row", keywords |-> Range(order),
              exact_match |-> exact_match, end_row |-> end_row, end_col |-> end_col,
              result |-> IF order = <<>> THEN Return(None)
                         ELSE IF IsNone(df') THEN RaiseExcelScannerError
                         ELSE find_consensus_row_on(df'.cells, order, exact_match,
                                                    end_row, end_col)]
  /\ UNCHANGED <<file, wb, ws, nwb, open, req>>

find_consensus_col(order, exact_match, end_row, end_col, readable) ==
  /\ df' = IF order = <<>> THEN df ELSE df_after_load(readable)
  /\ call' = [op |-> "find_consensus_col", keywords |-> Range(order),
              exact_match |-> exact_match, end_row |-> end_row, end_col |-> end_col,
              result |-> IF order = <<>> THEN Return(None)
                         ELSE IF IsNone(df') THEN RaiseExcelScannerError
                         ELSE find_consensus_col_on(df'.cells, order, exact_match,
                                                    end_row, end_col)]
  /\ UNCHANGED <<file, wb, ws, nwb, open, req>>

(***************************************************************************)
(* load_with_openpyxl, close                                               *)
(***************************************************************************)
Workbook(id) == [tag |-> "Workbook", id |-> id]

\* load_workbook(self.filepath, data_only=True).active: the stored values,
\* a formula cell giving its cached value
Worksheet(id, sheet) ==
  [tag |-> "Worksheet", id |-> id,
   cells |-> [r \in 1..Len(sheet) |->
               [c \in 1..Len(sheet[r]) |->
                 stored_value(sheet[r][c])]],
   max_row |-> Max(Len(sheet), 1),
   max_column |-> Max(shape1(sheet), 1)]

\* the instance after the body of load_with_openpyxl, and whether it raised
openpyxl_after(readable) ==
  IF readable
    THEN [wb |-> Workbook(nwb + 1), ws |-> Worksheet(nwb + 1, file), nwb |-> nwb + 1,
          open |-> open \cup {nwb + 1}, raised |-> FALSE]
    ELSE [wb |-> None, ws |-> ws, nwb |-> nwb, open |-> open, raised |-> TRUE]

load_with_openpyxl(readable) ==
  LET after == openpyxl_after(readable)
  IN /\ readable => nwb < MaxLoads
     /\ wb' = after.wb
     /\ ws' = after.ws
     /\ nwb' = after.nwb
     /\ open' = after.open
     /\ call' = [op |-> "load_with_openpyxl",
                 result |-> IF after.raised THEN RaiseExcelScannerError ELSE Return(after.ws)]
     /\ UNCHANGED <<file, df, req>>

close ==
  /\ open' = IF IsNone(wb) THEN open ELSE open \ {wb.id}
  /\ call' = [op |-> "close", result |-> Return(None)]
  /\ UNCHANGED <<file, df, wb, ws, nwb, req>>

(***************************************************************************)
(* get_cell_content                                                        *)
(***************************************************************************)
\* the bare `return value` in native mode and `str(value)` in string mode
handle_return_type_unchecked(value, return_native_type) ==
  IF return_native_type THEN value ELSE str(value)

\* the "Handle return type" block
handle_return_type(value, return_native_type) ==
  IF return_native_type
    THEN IF isna(value) THEN None ELSE value
    ELSE IF isna(value) THEN PyStr(<<>>) ELSE str(value)

\* `return None if return_native_type else ""`
empty_marker(return_native_type) == IF return_native_type THEN None ELSE PyStr(<<>>)

\* a validation that lets position 0 through
validation_allowing_zero(base_row, base_col, row_offset, col_offset) ==
  IF base_row < 0 \/ base_col < 0 THEN "base position"
  ELSE IF row_offset < 0 \/ col_offset < 0 THEN "offsets"
  ELSE "valid"

\* the two checks under "# Validation": which ValueError is raised, if any
validation(base_row, base_col, row_offset, col_offset) ==
  IF base_row <= 0 \/ base_col <= 0 THEN "base position"
  ELSE IF row_offset < 0 \/ col_offset < 0 THEN "offsets"
  ELSE "valid"

\* an except clause that lets the load failure through
except_clause_raising(return_native_type) == RaiseExcelScannerError

\* `except Exception`: the empty marker is returned
except_clause(return_native_type) == Return(empty_marker(return_native_type))

\* get_formula not forcing the cell accessor
use_openpyxl_unless_pandas(get_formula, use_pandas) == ~use_pandas

\* use_openpyxl = get_formula or not use_pandas
use_openpyxl(get_formula, use_pandas) == get_formula \/ ~use_pandas

\* the target on one axis with the offset left out
target_without_offset(base, offset) == base

\* target_row = base_row + row_offset, target_col = base_col + col_offset
target(base, offset) == base + offset

\* the outcome of the call and the instance after it
get_cell_content_step(row, col, get_formula, row_offset, col_offset, return_native_type, use_pandas, readable) ==
  LET base_row == IF IsNone(row) THEN 1 ELSE row.n
      base_col == IF IsNone(col) THEN 1 ELSE col.n
      row_off == IF IsNone(row_offset) THEN 0 ELSE row_offset.n
      col_off == IF IsNone(col_offset) THEN 0 ELSE col_offset.n
      target_row == target(base_row, row_off)
      target_col == target(base_col, col_off)
      same == [df |-> df, wb |-> wb, ws |-> ws, nwb |-> nwb, open |-> open]
      loaded == IF IsNone(ws) THEN openpyxl_after(readable)
                ELSE [wb |-> wb, ws |-> ws, nwb |-> nwb, open |-> open, raised |-> FALSE]
      via_openpyxl ==
        [df |-> df, wb |-> loaded.wb, ws |-> loaded.ws, nwb |-> loaded.nwb,
         open |-> loaded.open,
         result |->
           IF loaded.raised THEN except_clause(return_native_type)
           ELSE IF ~(1 <= target_row /\ target_row <= loaded.ws.max_row
                     /\ 1 <= target_col /\ target_col <= loaded.ws.max_column)
             THEN Return(empty_marker(return_native_type))
           ELSE Return(handle_return_type(loaded.ws.cells[target_row][target_col],
                                          return_native_type))]
      table == df_after_load(readable)
      via_pandas ==
        [df |-> table, wb |-> wb, ws |-> ws, nwb |-> nwb, open |-> open,
         result |->
           IF IsNone(table) THEN except_clause(return_native_type)
           ELSE IF ~(1 <= target_row /\ target_row <= shape0(table.cells)
                     /\ 1 <= target_col /\ target_col <= shape1(table.cells))
             THEN Return(empty_marker(return_native_type))
           ELSE Return(handle_return_type(table.cells[target_row][target_col],
                                          return_native_type))]
      checked == validation(base_row, base_col, row_off, col_off)
  IN IF checked = "base position"
       THEN same @@ [result |-> RaiseValueError("base position",
                                  [row |-> base_row, col |-> base_col])]
     ELSE IF checked = "offsets"
       THEN same @@ [result |-> RaiseValueError("offsets",
                                  [row_offset |-> row_off, col_offset |-> col_off])]
     ELSE IF use_openpyxl(get_formula, use_pandas) THEN via_openpyxl
     ELSE via_pandas

get_cell_content(row, col, get_formula, row_offset, col_offset, return_native_type, use_pandas, readable) ==
  LET step == get_cell_content_step(row, col, get_formula, row_offset, col_offset,
                                    return_native_type, use_pandas, readable)
  IN /\ step.nwb <= MaxLoads
     /\ df' = step.df
     /\ wb' = step.wb
     /\ ws' = step.ws
     /\ nwb' = step.nwb
     /\ open' = step.open
     /\ call' = [op |-> "get_cell_content", row |-> row, col |-> col,
                 get_formula |-> get_formula, row_offset |-> row_offset,
                 col_offset |-> col_offset, return_native_type |-> return_native_type,
                 use_pandas |-> use_pandas, result |-> step.result]
     /\ UNCHANGED <<file, req>>

(***************************************************************************)
(* get_slice_content                                                       *)
(***************************************************************************)
\* a slice bound k on a sequence of n elements, as an index into it
slice_index(n, k) == IF k < 0 THEN Max(n + k, 0) ELSE Min(k, n)

\* table.iloc[start_row:end_row, start_col:end_col].copy()
iloc_copy(table, start_row, end_row, start_col, end_col) ==
  LET r0 == slice_index(shape0(table), start_row)
      r1 == slice_index(shape0(table), end_row)
      c0 == slice_index(shape1(table), start_col)
      c1 == slice_index(shape1(table), end_col)
  IN [i \in 1..(r1 - r0) |-> [j \in 1..(c1 - c0) |-> table[r0 + i][c0 + j]]]

\* the start bounds taken as 0-based already
get_slice_content_on_unshifted(table, start_slice_row, end_slice_row, start_slice_col, end_slice_col) ==
  LET start_row == IF IsNone(start_slice_row) THEN 0 ELSE start_slice_row.n
      end_row == IF IsNone(end_slice_row) THEN shape0(table) ELSE end_slice_row.n
      start_col == IF IsNone(start_slice_col) THEN 0 ELSE start_slice_col.n
      end_col == IF IsNone(end_slice_col) THEN shape1(table) ELSE end_slice_col.n
  IN DataFrame(iloc_copy(table, start_row, end_row, start_col, end_col))

\* the end bounds taken as exclusive 1-based bounds
get_slice_content_on_exclusive(table, start_slice_row, end_slice_row, start_slice_col, end_slice_col) ==
  LET start_row == IF IsNone(start_slice_row) THEN 0 ELSE start_slice_row.n - 1
      end_row == IF IsNone(end_slice_row) THEN shape0(table) ELSE end_slice_row.n - 1
      start_col == IF IsNone(start_slice_col) THEN 0 ELSE start_slice_col.n - 1
      end_col == IF IsNone(end_slice_col) THEN shape1(table) ELSE end_slice_col.n - 1
  IN DataFrame(iloc_copy(table, start_row, end_row, start_col, end_col))

get_slice_content_on(table, start_slice_row, end_slice_row, start_slice_col, end_slice_col) ==
  LET start_row == IF IsNone(start_slice_row) THEN 0 ELSE start_slice_row.n - 1
      end_row == IF IsNone(end_slice_row) THEN shape0(table) ELSE end_slice_row.n
      start_col == IF IsNone(start_slice_col) THEN 0 ELSE start_slice_col.n - 1
      end_col == IF IsNone(end_slice_col) THEN shape1(table) ELSE end_slice_col.n
  IN DataFrame(iloc_copy(table, start_row, end_row, start_col, end_col))

get_slice_content(start_slice_row, end_slice_row, start_slice_col, end_slice_col, readable) ==
  /\ df' = df_after_load(readable)
  /\ call' = [op |-> "get_slice_content", start_slice_row |-> start_slice_row,
              end_slice_row |-> end_slice_row, start_slice_col |-> start_slice_col,
              end_slice_col |-> end_slice_col,
              result |-> IF IsNone(df') THEN RaiseExcelScannerError
                         ELSE Return(get_slice_content_on(df'.cells, start_slice_row,
                                end_slice_row, start_slice_col, end_slice_col))]
  /\ UNCHANGED <<file, wb, ws, nwb, open, req>>

\* a range that is a view of the table
slice_is_view == TRUE

\* whether the DataFrame get_slice_content returns shares its cells with
\* self.df: `.copy()` makes it independent
slice_shares_memory == FALSE

\* the value a caller writes into a returned range
WrittenValue == PyStr(<<"B">>)

\* the caller assigns `value` to the cell (i, j) of the DataFrame the last
\* get_slice_content call returned
slice_setitem(i, j, value) ==
  /\ call.op = "get_slice_content"
  /\ call.result.kind = "return"
  /\ i \in 1..Len(call.result.value.cells)
  /\ j \in 1..Len(call.result.value.cells[i])
  /\ call' = [op |-> "slice_setitem",
              frame |-> [call.result.value EXCEPT !.cells[i][j] = value],
              result |-> Return(None)]
  /\ df' = IF slice_shares_memory
             THEN LET r == (IF IsNone(call.start_slice_row) THEN 0
                            ELSE call.start_slice_row.n - 1) + i
                      c == (IF IsNone(call.start_slice_col) THEN 0
                            ELSE call.start_slice_col.n - 1) + j
                  IN [df EXCEPT !.cells[r][c] = value]
             ELSE df
  /\ UNCHANGED <<file, wb, ws, nwb, open, req>>

(***************************************************************************)
(* The keyword operations as functions of their arguments: the caller's    *)
(* arguments are drawn with the sheet, and the operation is applied.       *)
(***************************************************************************)
LocateRequests ==
  [op : {"get_keyword_cell"}, keyword : KeywordPool, exact_match : BOOLEAN,
   end_row : OptInts(1, NRows + 1), end_col : OptInts(1, NCols + 1)]
  \cup
  [op : {"find_consensus_row", "find_consensus_col"}, keywords : SUBSET KeywordPool,
   exact_match : BOOLEAN,
   end_row : OptInts(1, NRows + 1), end_col : OptInts(1, NCols + 1)]

InitLocate ==
  /\ file \in Sheets
  /\ req \in LocateRequests
  /\ InitScanner

NextLocate ==
  \E readable \in BOOLEAN :
    \/ /\ req.op = "get_keyword_cell"
       /\ get_keyword_cell(req.keyword, req.exact_match, req.end_row, req.end_col, readable)
    \/ /\ req.op = "find_consensus_row"
       /\ \E order \in Orders(req.keywords) :
            find_consensus_row(order, req.exact_match, req.end_row, req.end_col, readable)
    \/ /\ req.op = "find_consensus_col"
       /\ \E order \in Orders(req.keywords) :
            find_consensus_col(order, req.exact_match, req.end_row, req.end_col, readable)

SpecLocate == InitLocate /\ [][NextLocate]_vars

(***************************************************************************)
(* The cell and range operations as functions of their arguments, on an    *)
(* instance whose backends are loaded, not loaded or failed to load.       *)
(***************************************************************************)
CellRequests ==
  [op : {"get_cell_content"}, row : OptInts(0, NRows), col : OptInts(0, NCols),
   row_offset : {None, PyInt(-1), PyInt(1)}, col_offset : {None, PyInt(-1), PyInt(1)},
   get_formula : BOOLEAN, return_native_type : BOOLEAN, use_pandas : BOOLEAN]
  \cup
  [op : {"get_slice_content"},
   start_slice_row : OptInts(1, NRows), end_slice_row : OptInts(1, NRows + 1),
   start_slice_col : OptInts(1, NCols), end_slice_col : OptInts(1, NCols + 1)]

\* a cell holding the formula =1, computed as 1
FormulaCell == Formula(PyStr(<<"=", "1">>), PyInt(1))

\* the sheets with at most one cell that is not empty, a formula included
CellSheets ==
  {sheet \in [1..NRows -> [1..NCols -> CellPool \cup {FormulaCell}]] : Filled(sheet) <= 1}

InitCell ==
  /\ file \in CellSheets
  /\ req \in CellRequests
  /\ InitScanner

\* the caller may load either backend beforehand, once, from a readable file;
\* the file may be unreadable when the operation itself has to load
NextCell ==
  \E readable \in BOOLEAN :
    \/ /\ IsNone(df)
       /\ readable
       /\ load_with_pandas(readable)
    \/ /\ nwb = 0
       /\ readable
       /\ load_with_openpyxl(readable)
    \/ /\ req.op = "get_cell_content"
       /\ get_cell_content(req.row, req.col, req.get_formula, req.row_offset,
                           req.col_offset, req.return_native_type, req.use_pandas, readable)
    \/ /\ req.op = "get_slice_content"
       /\ get_slice_content(req.start_slice_row, req.end_slice_row,
                            req.start_slice_col, req.end_slice_col, readable)

SpecCell == InitCell /\ [][NextCell]_vars

(***************************************************************************)
(* normalize_text as a function of its argument.                           *)
(***************************************************************************)
\* the characters of the texts normalize_text is applied to
Alphabet == {" ", "A", "a", "1"}

\* the texts have up to MaxLen characters
MaxLen == 3

NormalizeInputs ==
  {None, NaN, PyInt(0), PyInt(1), PyFloat(1)}
  \cup {PyStr(s) : s \in UNION {[1..n -> Alphabet] : n \in 0..MaxLen}}

apply_normalize_text(value) ==
  /\ call' = [op |-> "normalize_text", value |-> value, result |-> normalize_text(value)]
  /\ UNCHANGED <<file, df, wb, ws, nwb, open, req>>

InitNormalize ==
  /\ file = [r \in 1..NRows |-> [c \in 1..NCols |-> None]]
  /\ req \in [op : {"normalize_text"}, value : NormalizeInputs]
  /\ InitScanner

\* normalize_text applied to the argument, and applied to its own result
NextNormalize ==
  \/ apply_normalize_text(req.value)
  \/ /\ call.op = "normalize_text"
     /\ apply_normalize_text(call.result)

SpecNormalize == InitNormalize /\ [][NextNormalize]_vars

(***************************************************************************)
(* One instance over its lifetime: any sequence of the public operations,  *)
(* each load finding the file readable or not.                             *)
(***************************************************************************)
\* the calls made over a lifetime: searches without a bound, cell lookups
\* without offsets, the range of the whole sheet
LifetimeRequests ==
  {r \in LocateRequests : IsNone(r.end_row) /\ IsNone(r.end_col)}
  \cup {r \in CellRequests :
          /\ r.op = "get_cell_content"
          /\ IsNone(r.row_offset) /\ IsNone(r.col_offset)
          /\ r.row \in OptInts(NRows, NRows) /\ r.col \in OptInts(0, 1)}
  \cup {r \in CellRequests :
          /\ r.op = "get_slice_content"
          /\ IsNone(r.start_slice_row) /\ IsNone(r.start_slice_col)
          /\ IsNone(r.end_slice_row) /\ IsNone(r.end_slice_col)}

Init ==
  /\ file \in CellSheets
  /\ req \in LifetimeRequests
  /\ InitScanner

Next ==
  \/ \E readable \in BOOLEAN : load_with_pandas(readable)
  \/ \E readable \in BOOLEAN : load_with_openpyxl(readable)
  \/ close
  \/ \E i \in 1..NRows, j \in 1..NCols : slice_setitem(i, j, WrittenValue)
  \/ NextLocate
  \/ \E readable \in BOOLEAN :
       \/ /\ req.op = "get_cell_content"
          /\ get_cell_content(req.row, req.col, req.get_formula, req.row_offset,
                              req.col_offset, req.return_native_type, req.use_pandas,
                              readable)
       \/ /\ req.op = "get_slice_content"
          /\ get_slice_content(req.start_slice_row, req.end_slice_row,
                               req.start_slice_col, req.end_slice_col, readable)

Spec == Init /\ [][Next]_vars

(***************************************************************************)
(* The terms of the claims about the keyword operations.  The grid is the  *)
(* bulk table of the file; a keyword matches a cell of the searched region *)
(* when the cell's normalized string form equals (exact) or contains       *)
(* (partial) the normalized keyword; the region of a bound (end_row,       *)
(* end_col) is rows 1..end_row and columns 1..end_col.                     *)
(***************************************************************************)
Grid == read_excel(file)

LastRow(end_row) == IF IsNone(end_row) THEN shape0(Grid) ELSE Min(end_row.n, shape0(Grid))

LastCol(end_col) == IF IsNone(end_col) THEN shape1(Grid) ELSE Min(end_col.n, shape1(Grid))

Region(end_row, end_col) == (1..LastRow(end_row)) \X (1..LastCol(end_col))

Matched(keyword, exact_match, end_row, end_col) ==
  {p \in Region(end_row, end_col) :
     cell_matches(Grid[p[1]][p[2]], normalize_text(str(keyword)), exact_match)}

\* the rows (columns) a keyword of the last call matches in
MatchedRows(k) == {p[1] : p \in Matched(k, call.exact_match, call.end_row, call.end_col)}

MatchedCols(k) == {p[2] : p \in Matched(k, call.exact_match, call.end_row, call.end_col)}

SharedRows == Intersection({MatchedRows(k) : k \in call.keywords})

\* the last call was `op`, on a loaded table
Resolved(op) == call.op = op /\ ~IsNone(df)

Unbounded == IsNone(call.end_row) /\ IsNone(call.end_col)

AllMatched == call.keywords # {} /\ \A k \in call.keywords : MatchedRows(k) # {}

\* C1: when every keyword matches and exactly one row r is shared by the
\* keywords' matched rows, find_consensus_row returns r, for every bound.
C1_UniqueSharedRowReturned ==
  (Resolved("find_consensus_row") /\ AllMatched) =>
    \A r \in 1..shape0(Grid) : SharedRows = {r} => call.result = Return(PyInt(r))

\* C1 for calls without a bound: the unique shared row is returned.
C1_UniqueSharedRowReturnedUnbounded ==
  (Resolved("find_consensus_row") /\ Unbounded /\ AllMatched) =>
    \A r \in 1..shape0(Grid) : SharedRows = {r} => call.result = Return(PyInt(r))

\* C2: with two or more keywords that all match, find_consensus_row raises
\* no-consensus (with each keyword's rows) exactly when no row is shared and
\* ambiguous-consensus (with the shared rows) exactly when several are.
C2_NoConsensusAndAmbiguous ==
  (Resolved("find_consensus_row") /\ AllMatched /\ Cardinality(call.keywords) >= 2) =>
    /\ call.result = RaiseValueError("no common row",
                        [all_matches |-> [k \in call.keywords |-> MatchedRows(k)]])
         <=> SharedRows = {}
    /\ call.result = RaiseValueError("multiple shared rows", [common |-> SharedRows])
         <=> Cardinality(SharedRows) > 1
    /\ (call.result.kind = "raise" /\ call.result.why = "no common row") <=> SharedRows = {}
    /\ (call.result.kind = "raise" /\ call.result.why = "multiple shared rows")
         <=> Cardinality(SharedRows) > 1

\* C2 for calls without a bound.
C2_NoConsensusAndAmbiguousUnbounded ==
  (call.op = "find_consensus_row" /\ Unbounded) => C2_NoConsensusAndAmbiguous

\* C3: one keyword whose matches within the bound lie in several rows makes
\* find_consensus_row raise disambiguation-needed with exactly those rows.
C3_SingleKeywordSeveralRows ==
  (Resolved("find_consensus_row") /\ Cardinality(call.keywords) = 1) =>
    \A k \in call.keywords :
      Cardinality(MatchedRows(k)) > 1 =>
        call.result = RaiseValueError("multiple rows",
                        [keyword |-> k, matched |-> MatchedRows(k)])

\* C3 for calls without a bound.
C3_SingleKeywordSeveralRowsUnbounded ==
  (call.op = "find_consensus_row" /\ Unbounded) => C3_SingleKeywordSeveralRows

\* C4: a keyword without a match in the searched region makes
\* find_consensus_row and find_consensus_col return None, whatever the other
\* keywords match.
C4_UnmatchedKeywordGivesNone ==
  ((Resolved("find_consensus_row") \/ Resolved("find_consensus_col"))
     /\ \E k \in call.keywords :
          Matched(k, call.exact_match, call.end_row, call.end_col) = {})
    => call.result = Return(None)

\* C4 happens: one keyword matches nothing and the other, alone, would need
\* disambiguation; the call returned None.
C4_Witness ==
  /\ Resolved("find_consensus_row")
  /\ \E k0, k1 \in call.keywords :
       /\ MatchedRows(k0) = {}
       /\ Cardinality(MatchedRows(k1)) > 1
       /\ find_consensus_row_on(df.cells, <<k1>>, call.exact_match,
                                call.end_row, call.end_col).kind = "raise"
  /\ call.result = Return(None)

\* C5: get_keyword_cell returns the matching cells of rows 1..end_row and
\* columns 1..end_col, both inclusive (the whole axis when the bound is None).
C5_BoundInclusive ==
  Resolved("get_keyword_cell") =>
    /\ call.result.kind = "return"
    /\ Range(call.result.value)
         = Matched(call.keyword, call.exact_match, call.end_row, call.end_col)

\* what the code searches: rows 1..end_row-1 and columns 1..end_col-1
C5_BoundExclusive ==
  Resolved("get_keyword_cell") =>
    /\ call.result.kind = "return"
    /\ Range(call.result.value)
         = {p \in Matched(call.keyword, call.exact_match, None, None) :
              /\ IsNone(call.end_row) \/ p[1] < call.end_row.n
              /\ IsNone(call.end_col) \/ p[2] < call.end_col.n}

\* C6: without a bound get_keyword_cell returns, once each, exactly the
\* 1-based coordinates of the cells whose normalized string form equals
\* (exact) or contains (partial) the normalized keyword.
C6_AllMatchesOnce ==
  (Resolved("get_keyword_cell") /\ Unbounded) =>
    /\ call.result.kind = "return"
    /\ \A i, j \in 1..Len(call.result.value) :
         call.result.value[i] = call.result.value[j] => i = j
    /\ Range(call.result.value)
         = {p \in (1..shape0(Grid)) \X (1..shape1(Grid)) :
              LET text == normalize_text(str(Grid[p[1]][p[2]]))
                  word == normalize_text(str(call.keyword))
              IN IF call.exact_match THEN text = word ELSE contains(text, word)}

\* C6 happens: an unbounded search found several cells and left others out.
C6_Witness ==
  /\ Resolved("get_keyword_cell")
  /\ Unbounded
  /\ call.result.kind = "return"
  /\ Len(call.result.value) >= 2
  /\ Len(call.result.value) < shape0(Grid) * shape1(Grid)

(***************************************************************************)
(* The terms of the claims about get_cell_content and get_slice_content.   *)
(***************************************************************************)
OrElse(v, default) == IF IsNone(v) THEN default ELSE v.n

BaseRow == OrElse(call.row, 1)

BaseCol == OrElse(call.col, 1)

RowOffset == OrElse(call.row_offset, 0)

ColOffset == OrElse(call.col_offset, 0)

BadPosition == BaseRow <= 0 \/ BaseCol <= 0

BadOffset == RowOffset < 0 \/ ColOffset < 0

ValidArguments == ~BadPosition /\ ~BadOffset

TargetRow == BaseRow + RowOffset

TargetCol == BaseCol + ColOffset

InExtent == TargetRow \in 1..Len(file) /\ TargetCol \in 1..Len(file[1])

UsesCellAccessor == call.get_formula \/ ~call.use_pandas

\* the empty marker of the requested output mode
EmptyOfMode == IF call.return_native_type THEN None ELSE PyStr(<<>>)

\* C7: get_cell_content rejects a base position <= 0 with the invalid-position
\* failure and, the position being valid, a negative offset with the
\* invalid-offset failure; the rejected call leaves the instance as it was,
\* loaded or not, and returns no value.
C7_InvalidArgumentsRejected ==
  [][(call'.op = "get_cell_content" /\ call' # call) =>
       LET base_row == OrElse(call'.row, 1)
           base_col == OrElse(call'.col, 1)
           row_off == OrElse(call'.row_offset, 0)
           col_off == OrElse(call'.col_offset, 0)
       IN /\ (base_row <= 0 \/ base_col <= 0) =>
               /\ call'.result.kind = "raise"
               /\ call'.result.exc = "ValueError"
               /\ call'.result.why = "base position"
               /\ UNCHANGED <<file, df, wb, ws, nwb, open>>
          /\ (base_row >= 1 /\ base_col >= 1 /\ (row_off < 0 \/ col_off < 0)) =>
               /\ call'.result.kind = "raise"
               /\ call'.result.exc = "ValueError"
               /\ call'.result.why = "offsets"
               /\ UNCHANGED <<file, df, wb, ws, nwb, open>>]_vars

\* C7 happens: a negative offset was rejected on an instance with both
\* backends loaded.
C7_Witness ==
  /\ call.op = "get_cell_content"
  /\ ~BadPosition
  /\ RowOffset < 0
  /\ ColOffset < 0
  /\ ~IsNone(df)
  /\ ~IsNone(ws)
  /\ call.result.kind = "raise"

\* C8: with valid arguments get_cell_content returns the empty marker of the
\* mode (None native, "" string) when the target is outside the extent and
\* when the target cell is empty; in string mode it returns a string.
C8_EmptyMarker ==
  (call.op = "get_cell_content" /\ ValidArguments) =>
    /\ (~InExtent \/ IsNone(file[TargetRow][TargetCol])) => call.result = Return(EmptyOfMode)
    /\ ~call.return_native_type =>
         (call.result.kind = "return" /\ call.result.value.tag = "str")

\* C8 happens: the bulk table is loaded, the target is an empty cell of it and
\* native-type output was asked for.
C8_Witness ==
  /\ call.op = "get_cell_content"
  /\ ValidArguments
  /\ ~UsesCellAccessor
  /\ ~IsNone(df)
  /\ InExtent
  /\ IsNone(file[TargetRow][TargetCol])
  /\ call.return_native_type
  /\ call.result = Return(None)

\* C9: with valid arguments get_cell_content raises nothing, and a failure to
\* load the selected backend gives the empty marker of the mode.
C9_NeverRaises ==
  (call.op = "get_cell_content" /\ ValidArguments) =>
    /\ call.result.kind = "return"
    /\ (IF UsesCellAccessor THEN IsNone(ws) ELSE IsNone(df)) =>
         call.result = Return(EmptyOfMode)

\* C9 happens: the cell accessor failed to load during the call, for a target
\* inside the sheet.
C9_Witness ==
  /\ call.op = "get_cell_content"
  /\ ValidArguments
  /\ UsesCellAccessor
  /\ IsNone(ws)
  /\ InExtent
  /\ call.result = Return(EmptyOfMode)

\* the rectangle of the last get_slice_content call
SliceTop == OrElse(call.start_slice_row, 1)

SliceBottom == OrElse(call.end_slice_row, Len(file))

SliceLeft == OrElse(call.start_slice_col, 1)

SliceRight == OrElse(call.end_slice_col, Len(file[1]))

RectangleInGrid ==
  /\ 1 <= SliceTop /\ SliceTop <= SliceBottom /\ SliceBottom <= Len(file)
  /\ 1 <= SliceLeft /\ SliceLeft <= SliceRight /\ SliceRight <= Len(file[1])

\* get_cell_content(row=r, col=c, return_native_type=True), on the bulk table
NativeCell(r, c) ==
  get_cell_content_step(PyInt(r), PyInt(c), FALSE, None, None, TRUE, TRUE, TRUE).result

Sliced == call.op = "get_slice_content" /\ call.result.kind = "return" /\ RectangleInGrid

\* C10: the element at local offset (i, j) of get_slice_content(r1, r2, c1, c2)
\* equals the native-type value of get_cell_content(row=r1+i, col=c1+j).
C10_RoundTrip ==
  Sliced =>
    \A i \in 0..(SliceBottom - SliceTop), j \in 0..(SliceRight - SliceLeft) :
      Return(call.result.value.cells[i + 1][j + 1]) = NativeCell(SliceTop + i, SliceLeft + j)

\* C10 as amended: the two agree on every cell that is not empty; of an empty
\* cell the range holds NaN and get_cell_content returns None.
C10_RoundTripUpToEmpty ==
  Sliced =>
    /\ Len(call.result.value.cells) = SliceBottom - SliceTop + 1
    /\ \A i \in 0..(SliceBottom - SliceTop) :
         /\ Len(call.result.value.cells[i + 1]) = SliceRight - SliceLeft + 1
         /\ \A j \in 0..(SliceRight - SliceLeft) :
              LET element == call.result.value.cells[i + 1][j + 1]
              IN IF IsNone(file[SliceTop + i][SliceLeft + j])
                   THEN element = NaN /\ NativeCell(SliceTop + i, SliceLeft + j) = Return(None)
                   ELSE Return(element) = NativeCell(SliceTop + i, SliceLeft + j)

\* C10 happens: a range that does not start at the first row, with a cell
\* that is not empty and an empty one.
C10_Witness ==
  /\ Sliced
  /\ SliceTop > 1
  /\ \E j, k \in SliceLeft..SliceRight : ~IsNone(file[SliceTop][j]) /\ IsNone(file[SliceTop][k])

(***************************************************************************)
(* The claims about one instance over its lifetime.                        *)
(***************************************************************************)
\* C11: once the bulk table or the cell accessor has been loaded, no later
\* operation reloads, replaces or invalidates it.
C11_LoadedAtMostOnce ==
  [][/\ ~IsNone(df) => df' = df
     /\ ~IsNone(ws) => (ws' = ws /\ wb' = wb /\ nwb' = nwb)]_vars

\* the part of C11 about the bulk table
C11_BulkTableLoadedOnce ==
  [][~IsNone(df) => df' = df]_vars

\* the step is a call that had to load the bulk table and could not
BulkLoadFailed ==
  /\ IsNone(df)
  /\ IsNone(df')
  /\ \/ call'.op \in {"load_with_pandas", "get_keyword_cell", "get_slice_content"}
     \/ call'.op \in {"find_consensus_row", "find_consensus_col"} /\ call'.keywords # {}
     \/ /\ call'.op = "get_cell_content"
        /\ ~call'.get_formula /\ call'.use_pandas
        /\ OrElse(call'.row, 1) >= 1 /\ OrElse(call'.col, 1) >= 1
        /\ OrElse(call'.row_offset, 0) >= 0 /\ OrElse(call'.col_offset, 0) >= 0

\* the step is a call that had to load the cell accessor and could not
AccessorLoadFailed ==
  /\ nwb' = nwb
  /\ \/ call'.op = "load_with_openpyxl"
     \/ /\ call'.op = "get_cell_content"
        /\ call'.get_formula \/ ~call'.use_pandas
        /\ OrElse(call'.row, 1) >= 1 /\ OrElse(call'.col, 1) >= 1
        /\ OrElse(call'.row_offset, 0) >= 0 /\ OrElse(call'.col_offset, 0) >= 0
        /\ IsNone(ws)

\* the step is a get_cell_content call on the cell accessor, with valid
\* arguments, that returned something other than the empty marker
AccessorGaveData ==
  /\ call'.op = "get_cell_content"
  /\ call'.get_formula \/ ~call'.use_pandas
  /\ call'.result.kind = "return"
  /\ call'.result.value # (IF call'.return_native_type THEN None ELSE PyStr(<<>>))

\* the first half of C12: the call that triggered a failing load reports
\* ExcelScannerError
C12_FailureReported ==
  [][(BulkLoadFailed \/ AccessorLoadFailed) => call'.result = RaiseExcelScannerError]_vars

\* the second half of C12: after load_with_openpyxl has failed, a call that
\* needs the cell accessor and does not load it anew returns no data from it
C12_UnusableAfterwards ==
  [][(/\ call.op = "load_with_openpyxl"
      /\ call.result = RaiseExcelScannerError
      /\ nwb' = nwb) => ~AccessorGaveData]_vars

\* C12: a call that triggers a failing load reports ExcelScannerError instead
\* of returning a result, and afterwards calls that need the failed backend
\* return no data from it.
C12_LoadFailure ==
  [][/\ (BulkLoadFailed \/ AccessorLoadFailed) => call'.result = RaiseExcelScannerError
     /\ (/\ call.op = "load_with_openpyxl"
         /\ call.result = RaiseExcelScannerError
         /\ nwb' = nwb) => ~AccessorGaveData]_vars

\* what holds of a failing load: every operation but get_cell_content reports
\* ExcelScannerError, and the bulk table stays absent
C12_FailureReportedByOthers ==
  [][((BulkLoadFailed \/ AccessorLoadFailed) /\ call'.op # "get_cell_content")
       => call'.result = RaiseExcelScannerError]_vars

\* C13: after close() returns no workbook opened by the instance remains
\* open, whatever loads and queries preceded it, and close() does not raise.
C13_CloseReleasesAll ==
  call.op = "close" => (open = {} /\ call.result = Return(None))

\* what close() does release: the workbook self.wb refers to, if any
C13_CloseReleasesCurrent ==
  call.op = "close" =>
    /\ call.result = Return(None)
    /\ ~IsNone(wb) => wb.id \notin open
    /\ nwb = 0 => open = {}

(***************************************************************************)
(* The two consensus operations as mirrors of each other.                  *)
(***************************************************************************)
\* the grid with its axes exchanged
Transpose(table) ==
  [c \in 1..shape1(table) |-> [r \in 1..shape0(table) |-> table[r][c]]]

\* the outcome of the row operation read on the other axis: the same number,
\* None, or failure kind with the same candidate sets
MirrorOutcome(outcome) ==
  IF outcome.kind = "raise" /\ outcome.exc = "ValueError"
    THEN [outcome EXCEPT !.why =
            CASE outcome.why = "multiple rows" -> "multiple columns"
              [] outcome.why = "no common row" -> "no common column"
              [] outcome.why = "multiple shared rows" -> "multiple shared columns"]
    ELSE outcome

\* C14: find_consensus_col on a grid gives the outcome find_consensus_row
\* gives on the transposed grid with end_row and end_col exchanged.
C14_AxisMirror ==
  Resolved("find_consensus_col") =>
    \A order \in Orders(call.keywords) :
      call.result = find_consensus_col_on(df.cells, order, call.exact_match,
                                          call.end_row, call.end_col)
        => call.result = MirrorOutcome(
             find_consensus_row_on(Transpose(df.cells), order, call.exact_match,
                                   call.end_col, call.end_row))

\* C14 happens: a column was found under two different bounds, in a grid where
\* the row operation with the same arguments gives another outcome.
C14_Witness ==
  /\ Resolved("find_consensus_col")
  /\ call.keywords # {}
  /\ call.result = Return(PyInt(2))
  /\ ~IsNone(call.end_row) /\ ~IsNone(call.end_col) /\ call.end_row # call.end_col
  /\ \A order \in Orders(call.keywords) :
       find_consensus_row_on(df.cells, order, call.exact_match,
                             call.end_row, call.end_col) # call.result

\* C14 happens for a failure: several columns share all the keywords
C14_WitnessAmbiguous ==
  /\ Resolved("find_consensus_col")
  /\ call.result.kind = "raise"
  /\ call.result.why = "multiple shared columns"

\* C15: find_consensus_row and find_consensus_col called with an empty
\* keyword set return None without raising, for every grid and bound.
C15_NoKeywordsNoAnchor ==
  (call.op \in {"find_consensus_row", "find_consensus_col"} /\ call.keywords = {})
    => call.result = Return(None)

\* C15 happens: a call with no keywords and a bound returned None, on an
\* instance that did not even load the table.
C15_Witness ==
  /\ call.op = "find_consensus_row"
  /\ call.keywords = {}
  /\ ~IsNone(call.end_row)
  /\ IsNone(df)
  /\ call.result = Return(None)

(***************************************************************************)
(* More claims about get_cell_content and get_slice_content.               *)
(***************************************************************************)
\* C16: get_cell_content(row=r, col=c, row_offset=dr, col_offset=dc), with
\* r, c >= 1 and dr, dc >= 0 (an omitted base being 1, an omitted offset 0),
\* returns what get_cell_content(row=r+dr, col=c+dc) without offsets returns
\* on the same instance, in the same output mode and backend.
C16_BasePlusOffset ==
  [][(/\ call'.op = "get_cell_content"
      /\ OrElse(call'.row, 1) >= 1 /\ OrElse(call'.col, 1) >= 1
      /\ OrElse(call'.row_offset, 0) >= 0 /\ OrElse(call'.col_offset, 0) >= 0)
       => \E readable \in BOOLEAN :
            LET direct == get_cell_content_step(
                            PyInt(OrElse(call'.row, 1) + OrElse(call'.row_offset, 0)),
                            PyInt(OrElse(call'.col, 1) + OrElse(call'.col_offset, 0)),
                            call'.get_formula, None, None,
                            call'.return_native_type, call'.use_pandas, readable)
            IN /\ direct.result = call'.result
               /\ direct.df = df' /\ direct.ws = ws' /\ direct.wb = wb'
               /\ direct.nwb = nwb']_vars

\* C16 happens: an offset moved the target from an empty cell to a cell that
\* is not empty, and the call returned the latter.
C16_Witness ==
  /\ call.op = "get_cell_content"
  /\ ValidArguments
  /\ RowOffset + ColOffset > 0
  /\ InExtent
  /\ BaseRow <= Len(file) /\ BaseCol <= Len(file[1])
  /\ IsNone(file[BaseRow][BaseCol])
  /\ ~IsNone(file[TargetRow][TargetCol])
  /\ call.result.kind = "return"
  /\ call.result.value # EmptyOfMode

\* the rows and the columns of the grid inside the bounds of the last
\* get_slice_content call
SliceRows == {r \in 1..shape0(Grid) : SliceTop <= r /\ r <= SliceBottom}

SliceCols == {c \in 1..shape1(Grid) : SliceLeft <= c /\ c <= SliceRight}

\* C17: get_slice_content returns exactly the cells of rows
\* start_row..end_row and columns start_col..end_col of the grid, both ends
\* inclusive and 1-based, an omitted start being 1 and an omitted end the last
\* row/column; with every bound omitted it returns the whole grid.
C17_SliceInclusive ==
  (call.op = "get_slice_content" /\ ~IsNone(df)) =>
    /\ call.result.kind = "return"
    /\ call.result.value.cells =
         [i \in 1..Cardinality(SliceRows) |->
           [j \in 1..Cardinality(SliceCols) |-> Grid[SliceTop + i - 1][SliceLeft + j - 1]]]
    /\ (/\ IsNone(call.start_slice_row) /\ IsNone(call.end_slice_row)
        /\ IsNone(call.start_slice_col) /\ IsNone(call.end_slice_col))
         => call.result.value.cells = Grid

\* C17 happens: the range is the single cell of the last row and the first
\* column, which is not empty.
C17_Witness ==
  /\ call.op = "get_slice_content"
  /\ call.result.kind = "return"
  /\ call.start_slice_row = PyInt(Len(file))
  /\ call.end_slice_row = PyInt(Len(file))
  /\ call.end_slice_col = PyInt(1)
  /\ Len(file) > 1 /\ Len(file[1]) > 1
  /\ ~IsNone(file[Len(file)][1])
  /\ call.result.value.cells = <<<<Grid[Len(file)][1]>>>>

\* C18: the cached bulk table has the dimensions and the cell values it was
\* loaded with, after any sequence of queries and after the caller has
\* modified a sub-grid that get_slice_content returned.
C18_GridReadOnly ==
  ~IsNone(df) => df = DataFrame(read_excel(file))

\* C18 happens: the caller has written into a returned sub-grid, which now
\* differs from the cached table it was taken from.
C18_Witness ==
  /\ call.op = "slice_setitem"
  /\ ~IsNone(df)
  /\ \E i \in 1..Len(df.cells), j \in 1..Len(df.cells[1]) :
       /\ call.frame.cells[i][j] = WrittenValue
       /\ df.cells[i][j] # WrittenValue

\* C19: normalize_text(normalize_text(v)) = normalize_text(v) for every value
\* v, and a value that is not text is returned unchanged.
C19_NormalizeIdempotent ==
  call.op = "normalize_text" =>
    /\ normalize_text(call.result) = call.result
    /\ call.value.tag # "str" => call.result = call.value

\* C19 happens: a text with whitespace at both ends and an upper-case letter
\* was normalized.
C19_Witness ==
  /\ call.op = "normalize_text"
  /\ call.value = PyStr(<<" ", "A", " ">>)
  /\ call.result = PyStr(<<"a">>)

\* C19 happens for a number
C19_WitnessNumber ==
  /\ call.op = "normalize_text"
  /\ call.value = PyFloat(1)
  /\ call.result = PyFloat(1)

\* the last call was get_cell_content(get_formula=True) with valid arguments
\* on a target of the sheet that holds a formula, the cell accessor loaded
FormulaAsked ==
  /\ call.op = "get_cell_content"
  /\ ValidArguments
  /\ call.get_formula
  /\ InExtent
  /\ file[TargetRow][TargetCol].tag = "formula"
  /\ ~IsNone(ws)

\* C20: get_cell_content(get_formula=True) returns the formula text of a
\* target cell that holds a formula, not the cell's computed value.
C20_FormulaText ==
  FormulaAsked => call.result = Return(file[TargetRow][TargetCol].text)

\* what the code returns: the computed value the file caches for the formula
C20_ComputedValue ==
  FormulaAsked =>
    call.result = Return(handle_return_type(file[TargetRow][TargetCol].cached,
                                            call.return_native_type))

(***************************************************************************)
(* Which backend an operation touches.                                     *)
(***************************************************************************)
\* the step is a get_cell_content call with valid arguments
ValidCellStep ==
  /\ call'.op = "get_cell_content"
  /\ OrElse(call'.row, 1) >= 1 /\ OrElse(call'.col, 1) >= 1
  /\ OrElse(call'.row_offset, 0) >= 0 /\ OrElse(call'.col_offset, 0) >= 0

\* what a get_cell_content call gives for the cells of one backend (None when
\* the backend is absent): the empty marker outside them, else the cell in
\* the output mode
ReadFrom(cells, step_call) ==
  LET r == OrElse(step_call.row, 1) + OrElse(step_call.row_offset, 0)
      c == OrElse(step_call.col, 1) + OrElse(step_call.col_offset, 0)
      marker == IF step_call.return_native_type THEN None ELSE PyStr(<<>>)
      value == cells[r][c]
  IN IF cells = None THEN Return(marker)
     ELSE IF ~(r \in 1..Len(cells) /\ c \in 1..Len(cells[1])) THEN Return(marker)
     ELSE IF isna(value) THEN Return(marker)
     ELSE IF step_call.return_native_type THEN Return(value)
     ELSE Return(str(value))

\* C21: get_cell_content reads, and if needed loads, the cell accessor exactly
\* when get_formula is true or use_pandas is false, and the bulk table
\* otherwise; the keyword operations and get_slice_content use the bulk table
\* only; no operation loads or changes the other backend's cached state.
C21_OnlyOwnBackend ==
  [][/\ call'.op \in {"load_with_pandas", "get_keyword_cell", "find_consensus_row",
                      "find_consensus_col", "get_slice_content"}
          => UNCHANGED <<wb, ws, nwb, open>>
     /\ call'.op = "load_with_openpyxl" => df' = df
     /\ ValidCellStep =>
          IF call'.get_formula \/ ~call'.use_pandas
            THEN /\ df' = df
                 /\ ~IsNone(ws) => UNCHANGED <<wb, ws, nwb, open>>
                 /\ call'.result =
                      ReadFrom(IF IsNone(ws') THEN None ELSE ws'.cells, call')
            ELSE /\ UNCHANGED <<wb, ws, nwb, open>>
                 /\ ~IsNone(df) => df' = df
                 /\ call'.result =
                      ReadFrom(IF IsNone(df') THEN None ELSE df'.cells, call')
     /\ (call'.op = "get_cell_content" /\ ~ValidCellStep)
          => UNCHANGED <<df, wb, ws, nwb, open>>]_vars

\* C21 happens: with both backends loaded, get_formula=True and
\* use_pandas=True, the call returned the cell accessor's 1 where the bulk
\* table holds 1.0.
C21_Witness ==
  /\ call.op = "get_cell_content"
  /\ ValidArguments
  /\ call.get_formula /\ call.use_pandas
  /\ call.return_native_type
  /\ ~IsNone(df) /\ ~IsNone(ws)
  /\ InExtent
  /\ df.cells[TargetRow][TargetCol] = PyFloat(1)
  /\ call.result = Return(PyInt(1))

(***************************************************************************)
(* The iteration order of the keyword set.                                 *)
(***************************************************************************)
\* C22: the outcome of find_consensus_row / find_consensus_col (number, None,
\* or failure kind with its candidate sets) does not depend on the order in
\* which the keywords of the set are iterated.
C22_OrderIndependent ==
  /\ Resolved("find_consensus_row") =>
       \A order \in Orders(call.keywords) :
         call.result = find_consensus_row_on(df.cells, order, call.exact_match,
                                             call.end_row, call.end_col)
  /\ Resolved("find_consensus_col") =>
       \A order \in Orders(call.keywords) :
         call.result = find_consensus_col_on(df.cells, order, call.exact_match,
                                             call.end_row, call.end_col)

\* C22 happens: of two keywords one matches nothing in the searched region
\* and the other matches several rows, so the loop ends at the first or at
\* the second keyword depending on the order.
C22_Witness ==
  /\ Resolved("find_consensus_row")
  /\ Cardinality(call.keywords) = 2
  /\ \E k0, k1 \in call.keywords :
       /\ get_keyword_cell_on(df.cells, k0, call.exact_match,
                              call.end_row, call.end_col) = <<>>
       /\ Len(get_keyword_cell_on(df.cells, k1, call.exact_match,
                                  call.end_row, call.end_col)) > 1
  /\ call.result = Return(None)

\* C22 happens: two keywords in different rows, no common row
C22_WitnessNoConsensus ==
  /\ Resolved("find_consensus_row")
  /\ Cardinality(call.keywords) = 2
  /\ call.result.kind = "raise"
  /\ call.result.why = "no common row"

(***************************************************************************)
(* Empty cells and the keyword search.                                     *)
(***************************************************************************)
\* C23: every coordinate get_keyword_cell returns, for a keyword that is not
\* empty and in either match mode, is that of a cell holding a text or a
\* number, never that of an empty cell.
C23_NoEmptyCellReturned ==
  Resolved("get_keyword_cell") =>
    \A i \in 1..Len(call.result.value) :
      ~IsNone(file[call.result.value[i][1]][call.result.value[i][2]])

\* what the code returns in partial mode: also the empty cells, when the
\* normalized keyword is part of "nan"
C23_EmptyCellsReadNan ==
  (Resolved("get_keyword_cell") /\ Unbounded /\ ~call.exact_match) =>
    \A p \in (1..shape0(Grid)) \X (1..shape1(Grid)) :
      IsNone(file[p[1]][p[2]]) =>
        (p \in Range(call.result.value)
           <=> contains(PyStr(<<"n", "a", "n">>), normalize_text(str(call.keyword))))

(***************************************************************************)
(* The cached worksheet and the cached workbook.                           *)
(***************************************************************************)
\* C24: in every state reached by load_with_openpyxl calls (succeeding or
\* failing), get_cell_content calls and close calls, the instance holds a
\* worksheet only while it also holds the workbook the worksheet belongs to.
C24_WorksheetHasWorkbook ==
  ~IsNone(ws) => (~IsNone(wb) /\ wb.id = ws.id)

\* what holds: a workbook the instance holds is that of the worksheet it
\* holds
C24_WorkbookHasWorksheet ==
  ~IsNone(wb) => (~IsNone(ws) /\ ws.id = wb.id)

====
